---- MODULE Spec2Model ----
(***************************************************************************)
(* HRDR-BPR (cornac/models/hrdr/hrdr_bpr.py): the constructor of Model,    *)
(* the forward graph it wires, and get_weights.                            *)
(*                                                                         *)
(* Numbers.  The program computes in float32.  Here every tensor entry is  *)
(* either an integer (inputs, embeddings, logits) or an exact rational     *)
(* <<n, d>> (attention weights and everything computed from them).  exp is *)
(* taken in base 2 and underflows to exactly 0 below 2^-ExpUnderflow, as   *)
(* float32 exp does below its smallest denormal.                           *)
(*                                                                         *)
(* Shapes.  The hyper-parameters are the smallest valid ones: n_filters,   *)
(* n_factors, id_embedding_size, embedding_size, attention_size and        *)
(* max_text_length are all 1, so D = 3 and every per-review feature is one *)
(* number.                                                                 *)
(***************************************************************************)
EXTENDS Integers, Sequences, FiniteSets, TLC

VARIABLES
    ctor,              \* position of Model.__init__: "new", "built", "raised"
    rng,               \* self.rng: the seed it was made from, or Unset
    embedding_matrix,  \* the word embedding matrix __init__ hands to both Embedding layers
    oov_count,         \* oov_count of __init__
    params,            \* every trainable weight of self.graph
    bn,                \* BatchNormalization moving means (user tower, item tower)
    out,               \* what the last call of self.graph computed
    pc,                \* position of get_weights: "idle", "users", "items", "done"
    todoU, todoI,      \* ids user_iter / item_iter have not yielded yet
    P, Q, A,           \* the arrays get_weights fills
    writes,            \* how often get_weights assigned each row of P, Q and A
    modes,             \* the training flag each layer of the last batch ran with
    ret,               \* W1, bu, bi, mu as returned by get_weights
    num_reviews,       \* train_set: the review count of every user and item
    fit_steps          \* optimizer steps taken so far

vars == <<ctor, rng, embedding_matrix, oov_count, params, bn, out,
          pc, todoU, todoI, P, Q, A, writes, modes, ret, num_reviews, fit_steps>>

ctorVars == <<ctor, rng, embedding_matrix, oov_count>>
gwVars   == <<pc, todoU, todoI, P, Q, A, writes, modes, ret>>

----------------------------------------------------------------------------
(* Bounds of the model *)

\* n_users, n_items of the data set
NU == 2
NI == 2
\* size of the vocabulary (vocab.size); indices 0..3 are the reserved tokens
NVocab == 5
\* max_num_review passed to get_weights
MaxNumReview == 2
\* batch_size passed to get_weights
BatchSize == 2
\* number of optimizer steps the training loop takes
MaxFitSteps == 2

Users == 0 .. (NU - 1)
Items == 0 .. (NI - 1)
Vocab == 0 .. (NVocab - 1)

\* Python's None, for a seed and for a value that holds a tuple, array or record
None  == "None"
Unset == "unset"
NoValue == <<>>

----------------------------------------------------------------------------
(* Exact rationals <<n, d>>, d > 0, in lowest terms *)

Abs(x) == IF x < 0 THEN -x ELSE x

RECURSIVE GCD(_, _)
GCD(a, b) == IF b = 0 THEN a ELSE GCD(b, a % b)

Rat(n, d) ==
    LET g == GCD(Abs(n), d)
    IN  <<n \div g, d \div g>>

RInt(n) == <<n, 1>>
RZero == <<0, 1>>
ROne == <<1, 1>>
RAdd(x, y) == Rat(x[1] * y[2] + y[1] * x[2], x[2] * y[2])
RMul(x, y) == Rat(x[1] * y[1], x[2] * y[2])

RECURSIVE RSumTo(_, _)
\* f[1] + ... + f[k] of a sequence of rationals
RSumTo(f, k) == IF k = 0 THEN RZero ELSE RAdd(RSumTo(f, k - 1), f[k])
RSum(f) == RSumTo(f, Len(f))

RECURSIVE ISumTo(_, _)
ISumTo(f, k) == IF k = 0 THEN 0 ELSE ISumTo(f, k - 1) + f[k]
ISum(f) == ISumTo(f, Len(f))

RECURSIVE IMaxTo(_, _)
IMaxTo(f, k) == IF k = 1 THEN f[1] ELSE
    LET m == IMaxTo(f, k - 1) IN IF f[k] > m THEN f[k] ELSE m
IMax(f) == IMaxTo(f, Len(f))

Relu(x) == IF x > 0 THEN x ELSE 0

RECURSIVE Tup(_, _)
\* the function f on 1 .. n as a tuple
Tup(f, n) == IF n = 0 THEN <<>> ELSE Append(Tup(f, n - 1), f[n])

----------------------------------------------------------------------------
(* Model.__init__, lines 35-52: rng, the word embedding matrix *)

\* uniform(low=-0.5, high=0.5): the half-open range, in units of 1/4
UniformVals == -2 .. 1
\* vectors a pretrained embedding file may hold
PretrainedVals == {<<3>>}
\* seeds a caller may pass
Seeds == {"seed1"}

\* embedding_matrix[:4, :] = np.zeros((4, embedding_size))
ReservedRows == 4
ZeroReserved(m) == [t \in Vocab |-> IF t < ReservedRows THEN 0 ELSE m[t]]

\* for word, idx in vocab.tok2idx.items(): embedding_matrix[idx] = vector if found
\* (the vocabulary's word with index idx is named idx here)
ApplyPretrained(m, pre) ==
    [t \in Vocab |-> IF pre[t] # NoValue THEN pre[t][1] ELSE m[t]]

OovCount(pre) == Cardinality({t \in Vocab : pre[t] = NoValue})

PretrainedMaps == [Vocab -> PretrainedVals \cup {NoValue}]

\* embedding_matrix as lines 39-50 leave it
EmbeddingMatrix(draw, pre) ==
    IF pre = NoValue THEN ZeroReserved(draw)
    ELSE ApplyPretrained(ZeroReserved(draw), pre)

----------------------------------------------------------------------------
(* The data set (train_set) and get_data *)

\* train_set.user_data / item_data: the rating of user u for item i, 0 if none
Rating(u, i) == IF (u + i) % 2 = 0 THEN 1 ELSE 0
UserRatings(u) == Tup([c \in 1 .. NI |-> Rating(u, c - 1)], NI)
ItemRatings(i) == Tup([c \in 1 .. NU |-> Rating(c - 1, i)], NU)

\* the one token (max_text_length = 1) of review number k of an entity; never a
\* reserved token
ReviewToken(e, k) == ReservedRows + ((e + k) % (NVocab - ReservedRows))

\* the data sets: set number s gives item i the review count (i + s) modulo
\* MaxNumReview + 2, so that items without a review, with fewer than, exactly and
\* more than max_num_review reviews all occur; user u has 1 + u % MaxNumReview
NumReviewSets ==
    {[user |-> [u \in Users |-> 1 + (u % MaxNumReview)],
      item |-> [i \in Items |-> (i + s) % (MaxNumReview + 2)]] :
        s \in 0 .. (MaxNumReview + 1)}

\* get_data: the number of reviews kept for an entity with cnt reviews
KeptReviews(cnt, max_num_review) ==
    IF cnt < max_num_review THEN cnt ELSE max_num_review

\* get_data: the widths the padded review array of a batch may have
PaddedWidths(cnts, max_num_review) ==
    {R \in 1 .. max_num_review : \A c \in cnts : KeptReviews(c, max_num_review) <= R}

\* get_data: the reviews of entity e, right-padded with token 0 to width R
PaddedReviews(e, n, R) ==
    Tup([k \in 1 .. R |-> IF k <= n THEN ReviewToken(e, k) ELSE 0], R)

----------------------------------------------------------------------------
(* The layers of self.graph *)

\* layers.Dropout(rate=dropout_rate) with dropout_rate = 0.5: a kept entry is
\* scaled by 1 / (1 - rate)
DropoutScale == 2
Dropout(x, training, keep) ==
    IF training THEN (IF keep THEN DropoutScale * x ELSE 0) ELSE x
RDropout(x, training, keep) ==
    IF training THEN (IF keep THEN RMul(RInt(DropoutScale), x) ELSE RZero) ELSE x

\* TextProcessor.call on one embedded review: convolution, max pooling, and
\* dropout when training
TextProcessor(x, training, keep) == Dropout(Relu(x), training, keep)

\* the training argument lines 77-79 pass to the text processors
TextProcessorTraining == TRUE

\* user_review_h / item_i_review_h / item_j_review_h for one entity
ReviewH(table, reviews, keeps) ==
    Tup([k \in 1 .. Len(reviews) |->
        TextProcessor(table[reviews[k]], TextProcessorTraining, keeps[k])], Len(reviews))

\* l_user_mlp / l_item_mlp before BatchNormalization: three Dense relu layers
DenseTower(x) == Relu(Relu(Relu(ISum(x))))

\* the mean of a batch of tower outputs (a sequence)
BatchMean(xs) == ISum(xs) \div Len(xs)

\* layers.BatchNormalization: batch statistics when training, the moving mean
\* otherwise (gamma = 1, beta = 0, unit variance)
BatchNormalization(x, training, batch_mean, moving_mean) ==
    IF training THEN x - batch_mean ELSE x - moving_mean

\* the moving mean after a training-mode call: it moves towards the batch mean
MovingMean(moving_mean, training, batch_mean) ==
    IF ~training THEN moving_mean
    ELSE IF batch_mean > moving_mean THEN moving_mean + 1
    ELSE IF batch_mean < moving_mean THEN moving_mean - 1
    ELSE moving_mean

\* Dense(1)(Dense(attention_size, relu)(review_h * rating_h)): the logits
AttentionLogits(w, review_h, rating_h) ==
    Tup([k \in 1 .. Len(review_h) |-> w * Relu(review_h[k] * rating_h)], Len(review_h))

\* a mask that also lets the first padded slot through
SequenceMaskOffByOne(n, maxlen) == Tup([k \in 1 .. maxlen |-> (k - 1) <= n], maxlen)

\* tf.sequence_mask(num_reviews, maxlen): slot k (0-based k - 1) is valid
SequenceMask(n, maxlen) == Tup([k \in 1 .. maxlen |-> (k - 1) < n], maxlen)

\* layers.Softmax adds this to the logit of every masked slot
LargeNegative == -1000000000
\* 2^-ExpUnderflow is the smallest positive value exp returns
ExpUnderflow == 4
RECURSIVE Pow2(_)
Pow2(k) == IF k = 0 THEN 1 ELSE 2 * Pow2(k - 1)
Exp(d) == IF d < -ExpUnderflow THEN 0 ELSE Pow2(ExpUnderflow + d)

\* layers.Softmax(axis=1)(a, mask)
Softmax(a, mask) ==
    LET z == Tup([k \in 1 .. Len(a) |->
                     a[k] + (IF mask[k] THEN 0 ELSE 1) * LargeNegative], Len(a))
        m == IMax(z)
        e == Tup([k \in 1 .. Len(a) |-> Exp(z[k] - m)], Len(a))
        s == ISum(e)
    IN  Tup([k \in 1 .. Len(a) |-> Rat(e[k], s)], Len(a))

\* Dense(n_factors)(Dropout(reduce_sum(attention * review_h, 1)))
Aggregate(w, attention, review_h, training, keep) ==
    LET pooled == RSum(Tup([k \in 1 .. Len(review_h) |->
                            RMul(attention[k], RInt(review_h[k]))], Len(review_h)))
    IN  RMul(RInt(w), RDropout(pooled, training, keep))

\* n_filters + n_factors + id_embedding_size, the width of pu, qi and qj
D == 3

\* layers.Concatenate: rating feature, opinion vector, id embedding
Concatenate(rating_h, o, id_emb) == <<RInt(rating_h), o, RInt(id_emb)>>

\* W1(p * q) + bu + bi, then AddGlobalBias
Prediction(W1, p, q, bu, bi, mu) ==
    RAdd(RSum(Tup([d \in 1 .. D |-> RMul(RInt(W1[d]), RMul(p[d], q[d]))], D)),
         RInt(bu + bi + mu))

----------------------------------------------------------------------------
(* The three branches of self.graph and its two predictions *)

\* review features, attention and fused representation of one entity
Branch(att_w, agg_w, table, id_emb, rating_h, reviews, n, keeps, training, keep_o) ==
    LET review_h  == ReviewH(table, reviews, keeps)
        attention == Softmax(AttentionLogits(att_w, review_h, rating_h),
                             SequenceMask(n, Len(reviews)))
        o         == Aggregate(agg_w, attention, review_h, training, keep_o)
    IN  [attention |-> attention, rep |-> Concatenate(rating_h, o, id_emb)]

\* a_user, user_attention, ou, pu
user_branch(pr, u, rating_h, reviews, n, keeps, training, keep_o) ==
    Branch(pr.a_user, pr.ou, pr.user_review_embedding, pr.user_embedding[u],
           rating_h, reviews, n, keeps, training, keep_o)

\* a_item_i, item_i_attention, oi, qi
item_i_branch(pr, i, rating_h, reviews, n, keeps, training, keep_o) ==
    Branch(pr.a_item_i, pr.oi, pr.item_review_embedding, pr.item_embedding[i],
           rating_h, reviews, n, keeps, training, keep_o)

\* a_item_j, item_j_attention, oj, qj
item_j_branch(pr, j, rating_h, reviews, n, keeps, training, keep_o) ==
    Branch(pr.a_item_j, pr.oj, pr.item_review_embedding, pr.item_embedding[j],
           rating_h, reviews, n, keeps, training, keep_o)

\* r_i and r_j
prediction(pr, u, i, pu, q) ==
    Prediction(pr.W1, pu, q, pr.user_bias[u], pr.item_bias[i], pr.global_bias)

----------------------------------------------------------------------------
(* Model.__init__ *)

\* global_mean values a caller may pass
GlobalMeans == {3}

\* the weights of the layers as __init__ creates them: both review Embedding
\* layers start from embedding_matrix, the bias tables from Constant(0.1) (one
\* unit here), global_bias from global_mean; one draw of the random initializers
InitialParams(m, global_mean) ==
    [user_review_embedding |-> m,
     item_review_embedding |-> m,
     user_embedding |-> [u \in Users |-> 1],
     item_embedding |-> [i \in Items |-> 1],
     user_bias      |-> [u \in Users |-> 1],
     item_bias      |-> [i \in Items |-> 1],
     a_user |-> 1, a_item_i |-> 1, a_item_j |-> 1,
     ou |-> 1, oi |-> 1, oj |-> 1,
     W1 |-> <<1, 1, 1>>,
     global_bias |-> global_mean]

\* moving_mean of the BatchNormalization layer of l_user_mlp and of l_item_mlp
InitialBn == [user |-> 0, item |-> 0]

NoOut == [call |-> "none"]
Mode(training) == IF training THEN "training" ELSE "inference"
NoModes == [text_processor |-> "none", dropout |-> "none", batch_norm |-> "none"]

\* nothing of get_weights has run
GwIdle ==
    /\ pc = "idle"
    /\ todoU = {} /\ todoI = {}
    /\ P = <<>> /\ Q = <<>> /\ A = <<>>
    /\ writes = <<>>
    /\ modes = NoModes
    /\ ret = NoValue

InitNew ==
    /\ ctor = "new"
    /\ rng = Unset
    /\ embedding_matrix = <<>>
    /\ oov_count = 0
    /\ params = NoValue
    /\ bn = NoValue
    /\ out = NoOut
    /\ GwIdle
    /\ num_reviews \in NumReviewSets
    /\ fit_steps = 0

\* Model(n_users, n_items, vocab, global_mean, pretrained_word_embeddings=pre, seed=seed)
Construct(seed, pre, global_mean) ==
    /\ ctor = "new"
    /\ IF seed = None
       THEN \* line 35 skips the assignment of self.rng; line 39 reads self.rng
            /\ ctor' = "raised"
            /\ UNCHANGED <<rng, embedding_matrix, oov_count, params, bn>>
       ELSE \E draw \in [Vocab -> UniformVals] :
            /\ ctor' = "built"
            /\ rng' = seed
            /\ embedding_matrix' = EmbeddingMatrix(draw, pre)
            /\ oov_count' = IF pre = NoValue THEN 0 ELSE OovCount(pre)
            /\ params' = InitialParams(EmbeddingMatrix(draw, pre), global_mean)
            /\ bn' = InitialBn
    /\ UNCHANGED <<out, num_reviews, fit_steps>>
    /\ UNCHANGED gwVars

NextCtor ==
    \E seed \in Seeds \cup {None}, pre \in PretrainedMaps \cup {NoValue},
       global_mean \in GlobalMeans :
        Construct(seed, pre, global_mean)

SpecCtor == InitNew /\ [][NextCtor]_vars

\* a model built with a seed and without pretrained embeddings
InitBuilt ==
    /\ ctor = "built"
    /\ rng \in Seeds
    /\ embedding_matrix = EmbeddingMatrix([t \in Vocab |-> 1], NoValue)
    /\ oov_count = 0
    /\ \E global_mean \in GlobalMeans :
          params = InitialParams(embedding_matrix, global_mean)
    /\ bn = InitialBn
    /\ out = NoOut
    /\ GwIdle
    /\ num_reviews \in NumReviewSets
    /\ fit_steps = 0

----------------------------------------------------------------------------
(* The training loop: an optimizer step assigns a trainable weight.  The steps
   modelled change the attention, aggregator and scorer weights; the embedding
   and bias tables and the rating towers keep their initial weights. *)

ParamVals == {1, 2}
FitFields == {"a_user", "a_item_i", "a_item_j", "ou", "oi", "oj", "W1", "global_bias"}

Fit(field, v) ==
    /\ ctor = "built"
    /\ pc = "idle"
    /\ out.call = "none"
    /\ fit_steps < MaxFitSteps
    /\ fit_steps' = fit_steps + 1
    /\ params' = [params EXCEPT ![field] = IF field = "W1" THEN <<v, v, v>> ELSE v]
    /\ params' # params
    /\ UNCHANGED <<bn, out, num_reviews>>
    /\ UNCHANGED ctorVars
    /\ UNCHANGED gwVars

----------------------------------------------------------------------------
(* One call of one branch of self.graph on a batch of one entity.  A behaviour
   of SpecGraph trains and then calls one branch once. *)

Keeps(R) == [1 .. R -> BOOLEAN]
\* the outcomes of a Dropout layer that runs with this training flag
KeepOutcomes(training) == IF training THEN BOOLEAN ELSE {TRUE}

Branches == {"user", "item_i", "item_j"}
Side(branch) == IF branch = "user" THEN "user" ELSE "item"
Entities(branch) == IF branch = "user" THEN Users ELSE Items

\* the input tensors get_data builds for one entity
NumReviews(side, e) == KeptReviews(num_reviews[side][e], MaxNumReview)
Ratings(side, e) == IF side = "user" THEN UserRatings(e) ELSE ItemRatings(e)

\* the named branch on entity e, with its rating feature already computed
RunBranch(branch, pr, e, rating_h, R, keeps, training, keep_o) ==
    LET n       == NumReviews(Side(branch), e)
        reviews == PaddedReviews(e, n, R)
    IN  IF branch = "user"
        THEN user_branch(pr, e, rating_h, reviews, n, keeps, training, keep_o)
        ELSE IF branch = "item_i"
        THEN item_i_branch(pr, e, rating_h, reviews, n, keeps, training, keep_o)
        ELSE item_j_branch(pr, e, rating_h, reviews, n, keeps, training, keep_o)

GraphCall(branch, e, training) ==
    /\ ctor = "built"
    /\ pc = "idle"
    /\ out.call = "none"
    /\ LET side == Side(branch)
           x    == DenseTower(Ratings(side, e))
           h    == BatchNormalization(x, training, BatchMean(<<x>>), bn[side])
       IN  /\ \E R \in PaddedWidths({num_reviews[side][e]}, MaxNumReview) :
              \E keeps \in Keeps(R), keep_o \in KeepOutcomes(training) :
                LET b == RunBranch(branch, params, e, h, R, keeps, training, keep_o)
                IN  out' = [call |-> Mode(training), branch |-> branch, id |-> e,
                            n |-> NumReviews(side, e), R |-> R,
                            attention |-> b.attention, rep |-> b.rep]
           /\ bn' = [bn EXCEPT ![side] = MovingMean(bn[side], training, BatchMean(<<x>>))]
    /\ UNCHANGED <<params, num_reviews, fit_steps>>
    /\ UNCHANGED ctorVars
    /\ UNCHANGED gwVars

NextGraph ==
    \/ \E field \in FitFields, v \in ParamVals : Fit(field, v)
    \/ \E branch \in Branches, training \in BOOLEAN :
          \E e \in Entities(branch) : GraphCall(branch, e, training)

SpecGraph == InitBuilt /\ [][NextGraph]_vars

----------------------------------------------------------------------------
(* get_weights *)

\* the sub-models called in training mode
GetWeightsTrainingOn == TRUE

\* the training argument get_weights passes to its two sub-models (lines 203, 207)
GetWeightsTraining == FALSE

Zeros(n) == Tup([k \in 1 .. n |-> RZero], n)

RECURSIVE TowerSum(_, _, _)
\* the sum of the tower outputs of the entities 0 .. k-1 that are in the batch
TowerSum(side, batch, k) ==
    IF k = 0 THEN 0
    ELSE TowerSum(side, batch, k - 1)
         + (IF (k - 1) \in batch THEN DenseTower(Ratings(side, k - 1)) ELSE 0)

\* the batch mean BatchNormalization sees for a batch of entity ids
TowerBatchMean(side, batch) ==
    TowerSum(side, batch, IF side = "user" THEN NU ELSE NI) \div Cardinality(batch)

\* what a branch may compute for entity e of a batch padded to width R, called
\* with this training argument: one result per outcome of the dropout layers
\* that are active
BranchOutcomes(branch, e, R, batch_mean, training) ==
    LET side == Side(branch)
        h    == BatchNormalization(DenseTower(Ratings(side, e)), training,
                                   batch_mean, bn[side])
    IN  {RunBranch(branch, params, e, h, R, keeps, training, keep_o) :
            keeps \in Keeps(R), keep_o \in KeepOutcomes(training)}

RECURSIVE BatchOutcomes(_, _, _, _, _)
\* what a sub-model of get_weights may compute for a whole batch: the tuples
\* whose entry e + 1 is a result for entity e of the batch (NoValue outside the
\* batch), built up over the entity ids 0 .. k-1
BatchOutcomes(branch, batch, k, R, batch_mean) ==
    IF k = 0 THEN {<<>>}
    ELSE LET rest == BatchOutcomes(branch, batch, k - 1, R, batch_mean)
             here == IF (k - 1) \in batch
                     THEN BranchOutcomes(branch, k - 1, R, batch_mean,
                                         GetWeightsTraining)
                     ELSE {NoValue}
         IN  {Append(f, o) : f \in rest, o \in here}

\* the batches user_iter / item_iter may yield next
Batches(todo) ==
    {b \in SUBSET todo : b # {} /\ Cardinality(b) <= BatchSize}

LayerModes ==
    [text_processor |-> Mode(TextProcessorTraining),
     dropout        |-> Mode(GetWeightsTraining),
     batch_norm     |-> Mode(GetWeightsTraining)]

\* lines 196-200: the sub-models and the zero arrays
GetWeightsStart ==
    /\ ctor = "built"
    /\ pc \in {"idle", "done"}
    /\ pc' = IF Users = {} THEN "items" ELSE "users"
    /\ todoU' = Users
    /\ todoI' = Items
    /\ P' = [u \in Users |-> Zeros(D)]
    /\ Q' = [i \in Items |-> Zeros(D)]
    /\ A' = [i \in Items |-> Zeros(MaxNumReview)]
    /\ writes' = [P |-> [u \in Users |-> 0], Q |-> [i \in Items |-> 0],
                  A |-> [i \in Items |-> 0]]
    /\ modes' = NoModes
    /\ ret' = NoValue
    /\ UNCHANGED <<params, bn, out, num_reviews, fit_steps>>
    /\ UNCHANGED ctorVars

\* lines 201-204: one iteration of the loop over user_iter
UserBatch(batch_users) ==
    /\ pc = "users"
    /\ batch_users \in Batches(todoU)
    /\ \E R \in PaddedWidths({num_reviews.user[u] : u \in batch_users}, MaxNumReview) :
         \E pu \in BatchOutcomes("user", batch_users, NU, R,
                                  TowerBatchMean("user", batch_users)) :
            \* P[batch_users] = pu
            P' = [u \in Users |-> IF u \in batch_users THEN pu[u + 1].rep ELSE P[u]]
    /\ writes' = [writes EXCEPT !.P =
                    [u \in Users |-> IF u \in batch_users THEN @[u] + 1 ELSE @[u]]]
    /\ bn' = [bn EXCEPT !.user = MovingMean(bn.user, GetWeightsTraining,
                                            TowerBatchMean("user", batch_users))]
    /\ modes' = LayerModes
    /\ todoU' = todoU \ batch_users
    /\ pc' = IF todoU' = {} THEN "items" ELSE "users"
    /\ UNCHANGED <<params, out, num_reviews, fit_steps, todoI, Q, A, ret>>
    /\ UNCHANGED ctorVars

\* lines 205-209: one iteration of the loop over item_iter; after the last one,
\* lines 210-214: W1, bu, bi, mu are read from the layers and returned
ItemBatch(batch_items) ==
    /\ pc = "items"
    /\ batch_items \in Batches(todoI)
    /\ \E R \in PaddedWidths({num_reviews.item[i] : i \in batch_items}, MaxNumReview) :
         \E qi \in BatchOutcomes("item_i", batch_items, NI, R,
                                  TowerBatchMean("item", batch_items)) :
            \* Q[batch_items] = qi
            /\ Q' = [i \in Items |-> IF i \in batch_items THEN qi[i + 1].rep ELSE Q[i]]
            \* A[batch_items, :item_attention.shape[1]] = item_attention
            /\ A' = [i \in Items |->
                       IF i \in batch_items
                       THEN Tup([k \in 1 .. MaxNumReview |->
                                   IF k <= R THEN qi[i + 1].attention[k] ELSE A[i][k]],
                                MaxNumReview)
                       ELSE A[i]]
    /\ writes' = [writes EXCEPT
                    !.Q = [i \in Items |-> IF i \in batch_items THEN @[i] + 1 ELSE @[i]],
                    !.A = [i \in Items |-> IF i \in batch_items THEN @[i] + 1 ELSE @[i]]]
    /\ bn' = [bn EXCEPT !.item = MovingMean(bn.item, GetWeightsTraining,
                                            TowerBatchMean("item", batch_items))]
    /\ modes' = LayerModes
    /\ todoI' = todoI \ batch_items
    /\ pc' = IF todoI' = {} THEN "done" ELSE "items"
    /\ ret' = IF todoI' = {}
              THEN [W1 |-> params.W1, bu |-> params.user_bias,
                    bi |-> params.item_bias, mu |-> params.global_bias]
              ELSE ret
    /\ UNCHANGED <<params, out, num_reviews, fit_steps, todoU, P>>
    /\ UNCHANGED ctorVars

Next ==
    \/ GetWeightsStart
    \/ \E batch_users \in SUBSET Users : UserBatch(batch_users)
    \/ \E batch_items \in SUBSET Items : ItemBatch(batch_items)

Init == InitBuilt

Spec == Init /\ [][Next]_vars

----------------------------------------------------------------------------
(* Model.__init__: claims C3 and C5, under SpecCtor *)

\* C3: after construction, rows 0 to 3 of the word embedding matrix are the
\* zero vector, with or without a pretrained mapping, also when the mapping
\* holds vectors for the tokens indexed 0 to 3.
C3_ReservedRowsZero ==
    ctor = "built" =>
        \A t \in 0 .. (ReservedRows - 1) : embedding_matrix[t] = 0

\* C5: the constructor completes for every valid argument list, in particular
\* when seed is omitted (None): it never raises.
C5_SeedIsOptional == ctor # "raised"

----------------------------------------------------------------------------
(* The attention of the three branches: claims C2 and C4, under SpecGraph *)

ItemRatingH(i) ==
    BatchNormalization(DenseTower(ItemRatings(i)), FALSE, 0, bn.item)

\* C4: the positive and the negative item branch are one function over one
\* parameter store: in every state training reaches, the same item input
\* (id, rating vector, reviews, review count) and the same dropout outcome give
\* the same attention weights and the same fused representation in both.
C4_BranchesShareWeights ==
    ctor = "built" =>
        \A i \in Items :
            \A R \in PaddedWidths({num_reviews.item[i]}, MaxNumReview) :
                \A keeps \in Keeps(R) :
                    RunBranch("item_i", params, i, ItemRatingH(i), R, keeps, FALSE, TRUE)
                    = RunBranch("item_j", params, i, ItemRatingH(i), R, keeps, FALSE, TRUE)

----------------------------------------------------------------------------
(* get_weights: claims C1 and C6 to C10, under Spec *)

Running == pc \in {"users", "items", "done"}

\* W1 . (P[u] * Q[i]) + bu[u] + bi[i] + mu, from what get_weights returned
ServingScore(u, i) ==
    Prediction(ret.W1, P[u], Q[i], ret.bu[u], ret.bi[i], ret.mu)

\* the values r_i may take when self.graph is called with training=False on
\* (u, i) with the reviews, review counts and rating vectors of the data set
GraphScores(u, i) ==
    UNION {
      {prediction(params, u, i, bu.rep, bi.rep) :
          bu \in BranchOutcomes("user", u, R, TowerBatchMean("user", {u}), FALSE),
          bi \in BranchOutcomes("item_i", i, R, TowerBatchMean("item", {i}), FALSE)} :
      R \in PaddedWidths({num_reviews.user[u], num_reviews.item[i]}, MaxNumReview)}

\* C1: for every user u and item i, the serving-time score computed from the
\* outputs of get_weights equals the score r_i the full graph computes for
\* (u, i) with the same parameters and inputs.
C1_ServingEqualsGraph ==
    pc = "done" =>
        \A u \in Users, i \in Items :
            \A r_i \in GraphScores(u, i) : ServingScore(u, i) = r_i

\* C6: A has shape (n_items, max_num_review), and for every item whose review
\* count c is smaller than max_num_review every column >= c of its row is 0.
C6_PaddedColumnsZero ==
    pc = "done" =>
        /\ DOMAIN A = Items
        /\ \A i \in Items :
            /\ Len(A[i]) = MaxNumReview
            /\ num_reviews.item[i] < MaxNumReview =>
                  \A k \in (num_reviews.item[i] + 1) .. MaxNumReview : A[i][k] = RZero

\* C7: after get_weights every row of A sums to 1 if the item has a review and
\* to 0 if it has none.
C7_RowSums ==
    pc = "done" =>
        \A i \in Items :
            RSum(A[i]) = IF num_reviews.item[i] >= 1 THEN ROne ELSE RZero

\* C8: in every batch of get_weights every layer of the extraction sub-graph
\* runs in inference mode.
C8_InferenceMode ==
    (Running /\ modes # NoModes) =>
        /\ modes.text_processor = "inference"
        /\ modes.dropout = "inference"
        /\ modes.batch_norm = "inference"

\* the row of A a call of get_weights writes from an attention vector
PadRow(attention) ==
    Tup([k \in 1 .. MaxNumReview |->
            IF k <= Len(attention) THEN attention[k] ELSE RZero], MaxNumReview)

\* what a call of get_weights that yields entity e in a batch of its own may
\* compute for it
AloneOutcomes(branch, e) ==
    UNION {BranchOutcomes(branch, e, R, TowerBatchMean(Side(branch), {e}),
                          GetWeightsTraining) :
           R \in PaddedWidths({num_reviews[Side(branch)][e]}, MaxNumReview)}

\* C9: get_weights writes every row of P, Q and A exactly once, and the final
\* P, Q and A do not depend on the order of the batches or on the partition of
\* the ids into batches: they are those of a call that takes every id alone.
C9_RowsOnceAndPartitionFree ==
    pc = "done" =>
        /\ \A u \in Users : writes.P[u] = 1
        /\ \A i \in Items : writes.Q[i] = 1 /\ writes.A[i] = 1
        /\ \A u \in Users : \A o \in AloneOutcomes("user", u) : P[u] = o.rep
        /\ \A i \in Items : \A o \in AloneOutcomes("item_i", i) :
              Q[i] = o.rep /\ A[i] = PadRow(o.attention)

\* C10: no step of get_weights changes a trained parameter or a moving
\* statistic of a BatchNormalization layer.
C10_GraphReadOnly ==
    [][(pc' \in {"users", "items", "done"}) => (params' = params /\ bn' = bn)]_vars

\* get_weights has run to its end: every row was written and the parameters
\* were returned
C10_Witness ==
    /\ pc = "done"
    /\ \A u \in Users : writes.P[u] = 1
    /\ \A i \in Items : writes.Q[i] = 1
    /\ ret.W1 = params.W1
    /\ modes.batch_norm = "inference"

====

